---- MODULE Spec2Model ----
(***************************************************************************)
(* Model of the router-config / register reconciliation tool               *)
(* (gn_check_all.py and the two single-purpose scripts beside it).         *)
(*                                                                         *)
(* Text is modelled as TLA+ strings, handled character by character the    *)
(* way the Python string methods handle it (strip, startswith, split,      *)
(* splitlines, int, re.sub).                                               *)
(***************************************************************************)
EXTENDS Integers, Sequences, FiniteSets, TLC

VARIABLES
    pc,             \* position of the running function
    file,           \* scanner: the lines `for line in f` yields
    pos,            \* scanner: number of lines read so far
    blocks,         \* scanner: blocks
    current_block,  \* scanner: current_block
    in_block,       \* scanner: in_block
    wc_octets,      \* mask converter: the octets the input string is written from
    wc,             \* mask converter: the argument wc
    prefix_len,     \* mask converter: the returned prefix_len
    ln_parts,       \* line rewriter: the pieces the input line is written from
    ln_in,          \* line rewriter: the argument line
    ln_out,         \* line rewriter: convert_line(line)
    ln_out2,        \* line rewriter: convert_line(convert_line(line))
    rows,           \* register loader: the (carrier cell, net cell) rows of the sheet
    op_col,         \* register loader: op_col
    row_i,          \* register loader: rows consumed by the zip loop
    excel_map,      \* register loader: excel_map
    prog,           \* comparison: the program run (gn_check_all or the comparison script)
    txt_lines,      \* comparison: the lines of the CIDR text file
    txt_map,        \* comparison: txt_map
    txt_order,      \* comparison: the keys of txt_map in insertion order
    txt_i,          \* comparison: carriers consumed by the comparison loop
    diff_exist,     \* comparison: diff_exist (diff_result in the comparison script)
    diff_not_exist, \* comparison: diff_not_exist
    report,         \* comparison: the text written to out_path
    fs,             \* batch run: the files of DATA_DIR, name -> text
    excel_path,     \* batch run: the file name of the register
    listing,        \* batch run: what os.listdir(data_dir) returned
    list_i,         \* batch run: file names consumed by process_all_txt_files
    cidr_files,     \* batch run: generated_cidr_files / cidr_files
    cmp_i,          \* batch run: CIDR files consumed by the loop of main
    scanned,        \* batch run: text files read by the block scanner
    created,        \* batch run: files opened for writing
    removed,        \* batch run: files removed
    err             \* batch run: the exception that ended the run ("" for none)

scanVars == <<file, pos, blocks, current_block, in_block>>
wcVars == <<wc_octets, wc, prefix_len>>
lineVars == <<ln_parts, ln_in, ln_out, ln_out2>>
regVars == <<rows, op_col, row_i, excel_map>>
recVars == <<prog, txt_lines, txt_map, txt_order, txt_i, diff_exist, diff_not_exist, report>>

mainVars == <<fs, excel_path, listing, list_i, cidr_files, cmp_i, scanned, created,
              removed, err>>

vars == <<pc, scanVars, wcVars, lineVars, regVars, recVars, mainVars>>

\* The variables of a component that is not running.
ScanIdle ==
    file = <<>> /\ pos = 0 /\ blocks = <<>> /\ current_block = <<>> /\ in_block = FALSE

WcIdle == wc_octets = <<>> /\ wc = "" /\ prefix_len = 0

LineIdle == ln_parts = <<>> /\ ln_in = "" /\ ln_out = "" /\ ln_out2 = ""

RegIdle == rows = <<>> /\ op_col = <<>> /\ row_i = 0 /\ excel_map = <<>>

RecIdle ==
    /\ prog = "" /\ txt_lines = <<>> /\ txt_map = <<>> /\ txt_order = <<>> /\ txt_i = 0
    /\ diff_exist = <<>> /\ diff_not_exist = <<>> /\ report = ""

MainIdle ==
    /\ fs = <<>> /\ excel_path = "" /\ listing = <<>> /\ list_i = 0 /\ cidr_files = <<>>
    /\ cmp_i = 0 /\ scanned = {} /\ created = {} /\ removed = {} /\ err = ""

-----------------------------------------------------------------------------
(* Python string primitives *)

\* The character at index i of s ("" outside the string)
Ch(s, i) == IF i \in 1..Len(s) THEN SubSeq(s, i, i) ELSE ""

\* str.isspace() of one character (the ASCII whitespace the inputs use)
IsSpace(c) == c \in {" ", "\t", "\n", "\r", "\f"}

IsDigit(c) == c \in {"0", "1", "2", "3", "4", "5", "6", "7", "8", "9"}

RECURSIVE LStrip(_)
LStrip(s) ==
    IF Len(s) > 0 /\ IsSpace(Ch(s, 1)) THEN LStrip(SubSeq(s, 2, Len(s))) ELSE s

RECURSIVE RStrip(_)
RStrip(s) ==
    IF Len(s) > 0 /\ IsSpace(Ch(s, Len(s))) THEN RStrip(SubSeq(s, 1, Len(s) - 1)) ELSE s

\* str.strip()
Strip(s) == RStrip(LStrip(s))

\* str.startswith(p)
StartsWith(s, p) == Len(s) >= Len(p) /\ SubSeq(s, 1, Len(p)) = p

\* "".join(parts)
RECURSIVE Join(_)
Join(parts) ==
    IF parts = <<>> THEN "" ELSE Head(parts) \o Join(Tail(parts))

\* str.split(sep) for a one-character separator
RECURSIVE Split(_, _)
Split(s, sep) ==
    LET P == { i \in 1..Len(s) : Ch(s, i) = sep }
    IN  IF P = {} THEN <<s>>
        ELSE LET c == CHOOSE i \in P : \A x \in P : i <= x
             IN  <<SubSeq(s, 1, c - 1)>> \o Split(SubSeq(s, c + 1, Len(s)), sep)

\* str.count(c) for a one-character c
CountChar(s, c) == Cardinality({ i \in 1..Len(s) : Ch(s, i) = c })

DigitVal(c) ==
    CASE c = "0" -> 0 [] c = "1" -> 1 [] c = "2" -> 2 [] c = "3" -> 3 [] c = "4" -> 4
      [] c = "5" -> 5 [] c = "6" -> 6 [] c = "7" -> 7 [] c = "8" -> 8 [] c = "9" -> 9

DigitChar(d) == Ch("0123456789", d + 1)

RECURSIVE DigitsVal(_)
DigitsVal(s) ==
    IF s = "" THEN 0
    ELSE IF Ch(s, Len(s)) = "_" THEN DigitsVal(SubSeq(s, 1, Len(s) - 1))
    ELSE 10 * DigitsVal(SubSeq(s, 1, Len(s) - 1)) + DigitVal(Ch(s, Len(s)))

\* int(x): surrounding whitespace, an optional sign, decimal digits with single
\* underscores between them; anything else raises ValueError (ok = FALSE).
ParseInt(x) ==
    LET t == Strip(x)
        signed == Len(t) > 0 /\ Ch(t, 1) \in {"+", "-"}
        body == IF signed THEN SubSeq(t, 2, Len(t)) ELSE t
        valid == /\ Len(body) > 0
                 /\ \A i \in 1..Len(body) : IsDigit(Ch(body, i)) \/ Ch(body, i) = "_"
                 /\ IsDigit(Ch(body, 1)) /\ IsDigit(Ch(body, Len(body)))
                 /\ \A i \in 1..(Len(body) - 1) : ~(Ch(body, i) = "_" /\ Ch(body, i + 1) = "_")
    IN  IF ~valid THEN [ok |-> FALSE, val |-> 0]
        ELSE [ok |-> TRUE,
              val |-> IF signed /\ Ch(t, 1) = "-" THEN 0 - DigitsVal(body) ELSE DigitsVal(body)]

RECURSIVE BinDigits(_)
BinDigits(n) ==
    IF n < 2 THEN DigitChar(n) ELSE BinDigits(n \div 2) \o DigitChar(n % 2)

\* bin(o)
Bin(o) == IF o < 0 THEN "-0b" \o BinDigits(0 - o) ELSE "0b" \o BinDigits(o)

RECURSIVE DecDigits(_)
DecDigits(n) ==
    IF n < 10 THEN DigitChar(n) ELSE DecDigits(n \div 10) \o DigitChar(n % 10)

\* str(n) / f"{n}" of an integer
ToStr(n) == IF n < 0 THEN "-" \o DecDigits(0 - n) ELSE DecDigits(n)

RECURSIVE SumSeq(_)
SumSeq(q) == IF q = <<>> THEN 0 ELSE Head(q) + SumSeq(Tail(q))

-----------------------------------------------------------------------------
(* wildcard_to_prefixlen *)

\* parts = (parts + ["0"] * 4)[:4]
PadParts(parts) == SubSeq(parts \o <<"0", "0", "0", "0">>, 1, 4)

\* Mutant: the wildcard octets are not complemented.
MaskOctetsRaw(octets) == octets

\* mask_octets = [255 - o for o in octets]
MaskOctets(octets) == [i \in 1..Len(octets) |-> 255 - octets[i]]

\* The call wildcard_to_prefixlen(w): ok = FALSE when int() raises ValueError.
WildcardToPrefixlen(w) ==
    LET s == Strip(w)
        parsed == IF s = "0"
                  THEN [i \in 1..4 |-> [ok |-> TRUE, val |-> 0]]
                  ELSE LET parts == PadParts(Split(s, "."))
                       IN  [i \in 1..4 |-> ParseInt(parts[i])]
    IN  IF \E i \in 1..4 : ~parsed[i].ok
        THEN [ok |-> FALSE, val |-> 0]
        ELSE LET octets == [i \in 1..4 |-> parsed[i].val]
                 mask_octets == MaskOctets(octets)
             IN  [ok |-> TRUE,
                  val |-> SumSeq([i \in 1..4 |-> CountChar(Bin(mask_octets[i]), "1")])]

\* Octet values the wildcard strings are written from.
WcOctetValues == {0, 1, 7, 170, 255}

\* The written form of 1 to 4 octets: decimal, dot-separated.
RECURSIVE Dotted(_)
Dotted(q) ==
    IF Len(q) = 1 THEN ToStr(q[1]) ELSE ToStr(Head(q)) \o "." \o Dotted(Tail(q))

WcInit ==
    /\ pc = "call"
    /\ wc_octets \in UNION { [1..n -> WcOctetValues] : n \in 1..4 }
    /\ wc = Dotted(wc_octets)
    /\ prefix_len = 0
    /\ ScanIdle /\ LineIdle /\ RegIdle /\ RecIdle /\ MainIdle

\* prefix_len = wildcard_to_prefixlen(wc)
CallWildcardToPrefixlen ==
    /\ pc = "call"
    /\ LET r == WildcardToPrefixlen(wc)
       IN  /\ prefix_len' = r.val
           /\ pc' = IF r.ok THEN "done" ELSE "raised"
    /\ UNCHANGED <<wc_octets, wc, scanVars, lineVars, regVars, recVars, mainVars>>

WcNext == CallWildcardToPrefixlen

SpecWc == WcInit /\ [][WcNext]_vars

\* Number of 1-bits of an octet.
OnesOf(n) == Cardinality({ i \in 0..7 : (n \div (2 ^ i)) % 2 = 1 })

\* The four octets a wildcard string stands for (missing octets are 0).
WcFour == [i \in 1..4 |-> IF i <= Len(wc_octets) THEN wc_octets[i] ELSE 0]

\* C5: for "0" and for 1 to 4 dot-separated octets in 0..255 the call returns
\* the number of 1-bits of the four octets 255 - o, which is 32 minus the
\* number of 1-bits of the wildcard octets and lies in 0..32; the listed
\* strings give 32, 32, 24, 29, 0 and 0.0.0.170 gives 28.
PrefixLenIsBitCount ==
    pc # "call" =>
        /\ pc = "done"
        /\ prefix_len = SumSeq([i \in 1..4 |-> OnesOf(255 - WcFour[i])])
        /\ prefix_len = 32 - SumSeq([i \in 1..4 |-> OnesOf(WcFour[i])])
        /\ prefix_len \in 0..32
        /\ wc \in {"0", "0.0.0.0"} => prefix_len = 32
        /\ wc = "0.0.0.255" => prefix_len = 24
        /\ wc = "0.0.0.7" => prefix_len = 29
        /\ wc = "255.255.255.255" => prefix_len = 0
        /\ wc = "0.0.0.170" => prefix_len = 28

\* The converter has returned for the non-contiguous wildcard 0.0.0.170.
PrefixLenWitness == pc = "done" /\ wc = "0.0.0.170" /\ prefix_len = 28

-----------------------------------------------------------------------------
(* LINE_PATTERN and convert_line *)

\* The character classes of the patterns: \s, \d and \S
InClass(cls, c) ==
    CASE cls = "s" -> IsSpace(c)
      [] cls = "d" -> IsDigit(c)
      [] cls = "S" -> ~IsSpace(c)

\* Index just after the longest run of characters of class cls that starts at
\* index i of s (i itself when there is none).
RECURSIVE RunEnd(_, _, _)
RunEnd(s, i, cls) ==
    IF i <= Len(s) /\ InClass(cls, Ch(s, i)) THEN RunEnd(s, i + 1, cls) ELSE i

\* The literal lit stands at index i of s.
LitAt(s, i, lit) == i + Len(lit) - 1 <= Len(s) /\ SubSeq(s, i, i + Len(lit) - 1) = lit

\* line.rstrip("\n")
RECURSIVE RStripNL(_)
RStripNL(s) ==
    IF Len(s) > 0 /\ Ch(s, Len(s)) = "\n" THEN RStripNL(SubSeq(s, 1, Len(s) - 1)) ELSE s

NoMatch == [matched |-> FALSE, prefix |-> "", ip |-> "", wc |-> "", suffix |-> ""]

\* LINE_PATTERN.match(t).  Every repetition of the pattern is followed by an
\* item its class excludes (or, for \S+, by .* to the end), so the only
\* candidate match takes each run whole, as the greedy search does first.
\*   ^(\s*address\s+\d+\s+)(\d+\.\d+\.\d+\.\d+)\s+wildcard\s+(\S+)(.*)$
LinePatternMatch(t) ==
    LET a  == RunEnd(t, 1, "s")
        a2 == a + 7
        b  == RunEnd(t, a2, "s")
        c  == RunEnd(t, b, "d")
        d  == RunEnd(t, c, "s")
        e1 == RunEnd(t, d, "d")
        e2 == RunEnd(t, e1 + 1, "d")
        e3 == RunEnd(t, e2 + 1, "d")
        e4 == RunEnd(t, e3 + 1, "d")
        g  == RunEnd(t, e4, "s")
        h  == g + 8
        k  == RunEnd(t, h, "s")
        w  == RunEnd(t, k, "S")
    IN  IF /\ LitAt(t, a, "address") /\ b > a2 /\ c > b /\ d > c
           /\ e1 > d /\ LitAt(t, e1, ".")
           /\ e2 > e1 + 1 /\ LitAt(t, e2, ".")
           /\ e3 > e2 + 1 /\ LitAt(t, e3, ".")
           /\ e4 > e3 + 1
           /\ g > e4 /\ LitAt(t, g, "wildcard") /\ k > h /\ w > k
           /\ \A i \in w..Len(t) : Ch(t, i) # "\n"
        THEN [matched |-> TRUE,
              prefix |-> SubSeq(t, 1, d - 1),
              ip |-> SubSeq(t, d, e4 - 1),
              wc |-> SubSeq(t, k, w - 1),
              suffix |-> SubSeq(t, w, Len(t))]
        ELSE NoMatch

\* Mutant: the rewritten line gets no terminator of its own.
RewrittenNoNewline(m, prefix_length) ==
    m.prefix \o m.ip \o "/" \o ToStr(prefix_length) \o m.suffix

\* f"{prefix}{ip}/{prefix_len}{suffix}\n"
Rewritten(m, prefix_length) ==
    m.prefix \o m.ip \o "/" \o ToStr(prefix_length) \o m.suffix \o "\n"

\* The rest of convert_line once wildcard_to_prefixlen(wc) has given r.
ConvertWith(m, r) ==
    IF ~r.ok THEN [raised |-> TRUE, text |-> ""]
    ELSE [raised |-> FALSE, text |-> Rewritten(m, r.val)]

\* The rest of convert_line once the pattern has given m.
ConvertMatch(line, m) ==
    IF ~m.matched THEN [raised |-> FALSE, text |-> line]
    ELSE ConvertWith(m, WildcardToPrefixlen(m.wc))

\* convert_line(line): the returned string, or raised = TRUE when
\* wildcard_to_prefixlen raises.
ConvertLine(line) == ConvertMatch(line, LinePatternMatch(RStripNL(line)))

\* Pieces of lines that follow the address-line grammar.
LinePrefixes == { "  address 10 ", "address\t0  " }
LineIps == { "1.2.3.4", "10.255.0.16" }
LineWildcards == { "0", "0.0.0.7", "0.0.0.255", "0.0.0.170", "0.0.0.256", "any" }
LineSuffixes == { "", " description ABC", " description a.b wildcard 0.0.0.3 " }
LineTerminators == { "\n", "" }

AddressLineParts ==
    [matching : {TRUE}, prefix : LinePrefixes, ip : LineIps, wc : LineWildcards,
     suffix : LineSuffixes, nl : LineTerminators]

\* Lines that do not follow the grammar.
OtherLines ==
    { "#\n", "\n", "",
      " ip address-set internationalgn type object\n",
      "  address 10 1.2.3.4/29 description ABC\n",
      "  address 10 1.2.3.4 0.0.0.7 description ABC\n",
      "  address 10 1.2.3 wildcard 0.0.0.7\n",
      "  address 10 1.2.3.4 wildcard\n",
      "  address 10 1.2.3.4wildcard 0\n",
      "  address ten 1.2.3.4 wildcard 0\n",
      "x address 10 1.2.3.4 wildcard 0.0.0.7",
      "  address 10 range 1.2.3.4 1.2.3.9\n" }

OtherLineParts ==
    [matching : {FALSE}, prefix : OtherLines, ip : {""}, wc : {""}, suffix : {""}, nl : {""}]

\* The line as written from its pieces.
LineText(p) ==
    IF p.matching
    THEN p.prefix \o p.ip \o " wildcard " \o p.wc \o p.suffix \o p.nl
    ELSE p.prefix

LineInit ==
    /\ pc = "call"
    /\ ln_parts \in AddressLineParts \cup OtherLineParts
    /\ ln_in = LineText(ln_parts)
    /\ ln_out = ""
    /\ ln_out2 = ""
    /\ ScanIdle /\ WcIdle /\ RegIdle /\ RecIdle /\ MainIdle

\* new_line = convert_line(line)
CallConvertLine ==
    /\ pc = "call"
    /\ \E r \in {ConvertLine(ln_in)} :
          /\ ln_out' = r.text
          /\ pc' = IF r.raised THEN "raised" ELSE "once"
    /\ UNCHANGED <<ln_parts, ln_in, ln_out2, scanVars, wcVars, regVars, recVars, mainVars>>

\* convert_line applied to its own result
CallConvertLineAgain ==
    /\ pc = "once"
    /\ \E r \in {ConvertLine(ln_out)} :
          /\ ln_out2' = r.text
          /\ pc' = IF r.raised THEN "raised" ELSE "twice"
    /\ UNCHANGED <<ln_parts, ln_in, ln_out, scanVars, wcVars, regVars, recVars, mainVars>>

LineNext == CallConvertLine \/ CallConvertLineAgain

SpecLine == LineInit /\ [][LineNext]_vars

-----------------------------------------------------------------------------
(* normalize_net and load_excel_gn_map *)

\* re.sub(r"\s+", "", net)
RECURSIVE RemoveSpace(_)
RemoveSpace(s) ==
    IF s = "" THEN ""
    ELSE IF IsSpace(Ch(s, 1)) THEN RemoveSpace(SubSeq(s, 2, Len(s)))
    ELSE Ch(s, 1) \o RemoveSpace(SubSeq(s, 2, Len(s)))

\* normalize_net(net), for a string argument
NormalizeNet(net) == RemoveSpace(net)

IsLineBreak(c) == c \in {"\n", "\r", "\f"}

\* str.splitlines(): the pieces between line breaks ("\r\n" is one break),
\* without a last empty piece.
RECURSIVE SplitLines(_)
SplitLines(s) ==
    IF s = "" THEN <<>>
    ELSE LET B == { i \in 1..Len(s) : IsLineBreak(Ch(s, i)) }
         IN  IF B = {} THEN <<s>>
             ELSE LET c == CHOOSE i \in B : \A x \in B : i <= x
                      n == IF Ch(s, c) = "\r" /\ Ch(s, c + 1) = "\n" THEN c + 2 ELSE c + 1
                  IN  <<SubSeq(s, 1, c - 1)>> \o SplitLines(SubSeq(s, n, Len(s)))

\* A sheet cell read with dtype=str: its text, or missing (NaN).
Cell(text) == [na |-> FALSE, text |-> text]
NaN == [na |-> TRUE, text |-> ""]

\* str(cell): the text of a cell, "nan" for a missing one
StrOf(cell) == IF cell.na THEN "nan" ELSE cell.text

\* Mutant: the carrier column is used as read.
FfillNone(col) == col

\* Series.ffill(): a missing cell takes the value of the nearest cell above
\* that is not missing; leading missing cells stay missing.
RECURSIVE Ffill(_)
Ffill(col) ==
    IF col = <<>> THEN <<>>
    ELSE LET up == Ffill(SubSeq(col, 1, Len(col) - 1))
             last == col[Len(col)]
         IN  Append(up, IF last.na /\ up # <<>> THEN up[Len(up)] ELSE last)

EmptyMap == <<>>

\* m[k].add(v) on a defaultdict(set)
MapAdd(m, k, v) ==
    [x \in DOMAIN m \cup {k} |->
        IF x = k THEN (IF k \in DOMAIN m THEN m[k] ELSE {}) \cup {v} ELSE m[x]]

\* The inner loop over the lines of one net cell.
RECURSIVE AddParts(_, _, _)
AddParts(m, op, parts) ==
    IF parts = <<>> THEN m
    ELSE LET raw_net == Strip(Head(parts))
             norm_net == NormalizeNet(raw_net)
         IN  IF raw_net = "" \/ norm_net = ""
             THEN AddParts(m, op, Tail(parts))
             ELSE AddParts(MapAdd(m, op, norm_net), op, Tail(parts))

\* One iteration of `for op, gn_cell in zip(op_col, gn_col)`.
LoadRow(m, op_cell, gn_cell) ==
    IF gn_cell.na THEN m
    ELSE LET op == Strip(StrOf(op_cell))
         IN  IF op = "" THEN m
             ELSE AddParts(m, op, SplitLines(StrOf(gn_cell)))

RECURSIVE LoadRows(_, _, _)
LoadRows(m, ops, gns) ==
    IF ops = <<>> \/ gns = <<>> THEN m
    ELSE LoadRows(LoadRow(m, Head(ops), Head(gns)), Tail(ops), Tail(gns))

\* load_excel_gn_map on a sheet with the given rows
LoadExcelGnMap(sheet) ==
    LoadRows(EmptyMap,
             Ffill([i \in 1..Len(sheet) |-> sheet[i].op]),
             [i \in 1..Len(sheet) |-> sheet[i].gn])

CarrierCells == { NaN, Cell("CT"), Cell(" CU "), Cell(" ") }
NetCells == { NaN, Cell("1.1.1.0/24"), Cell("2.2.2.0/24"), Cell(" 2.2.2.0 /24\n\n3.3.3.0/24 ") }

MaxRows == 3

Sheets == UNION { [1..n -> [op : CarrierCells, gn : NetCells]] : n \in 0..MaxRows }

RegInit ==
    /\ pc = "ffill"
    /\ rows \in Sheets
    /\ op_col = [i \in 1..Len(rows) |-> rows[i].op]
    /\ row_i = 0
    /\ excel_map = EmptyMap
    /\ ScanIdle /\ WcIdle /\ LineIdle /\ RecIdle /\ MainIdle

\* op_col = op_col.ffill()
RegFfill ==
    /\ pc = "ffill"
    /\ op_col' = Ffill(op_col)
    /\ pc' = "rows"
    /\ UNCHANGED <<rows, row_i, excel_map, scanVars, wcVars, lineVars, recVars, mainVars>>

\* one row of the zip loop
RegLoadRow ==
    /\ pc = "rows"
    /\ row_i < Len(rows)
    /\ excel_map' = LoadRow(excel_map, op_col[row_i + 1], rows[row_i + 1].gn)
    /\ row_i' = row_i + 1
    /\ UNCHANGED <<pc, rows, op_col, scanVars, wcVars, lineVars, recVars, mainVars>>

\* return excel_map
RegReturn ==
    /\ pc = "rows"
    /\ row_i = Len(rows)
    /\ pc' = "done"
    /\ UNCHANGED <<regVars, scanVars, wcVars, lineVars, recVars, mainVars>>

RegNext == RegFfill \/ RegLoadRow \/ RegReturn

SpecReg == RegInit /\ [][RegNext]_vars

\* The net strings of a net cell, as they are stored.
NetsOfCell(cell) ==
    LET parts == SplitLines(cell.text)
    IN  { NormalizeNet(Strip(parts[i])) : i \in 1..Len(parts) } \ {""}

\* Index of the nearest row at or above i whose carrier cell is present (0: none).
CarrierRow(i) ==
    LET S == { j \in 1..i : ~rows[j].op.na }
    IN  IF S = {} THEN 0 ELSE CHOOSE j \in S : \A k \in S : k <= j

NetsOfMap(m) == UNION { m[k] : k \in DOMAIN m }

\* C6: every net of a row whose carrier cell is missing is stored under the
\* (trimmed) carrier of the nearest row above whose carrier cell is present,
\* whether or not that row has a net cell; rows without a net cell contribute
\* no net.  Rows ("CT","1.1.1.0/24"), (missing,"2.2.2.0/24") put both nets
\* under "CT".
ForwardFill ==
    pc = "done" =>
        /\ \A i \in 1..Len(rows) :
              LET j == CarrierRow(i)
              IN  (rows[i].op.na /\ ~rows[i].gn.na /\ j > 0 /\ Strip(rows[j].op.text) # "") =>
                      \A net \in NetsOfCell(rows[i].gn) :
                          /\ Strip(rows[j].op.text) \in DOMAIN excel_map
                          /\ net \in excel_map[Strip(rows[j].op.text)]
        /\ NetsOfMap(excel_map) =
              UNION { NetsOfCell(rows[i].gn) :
                        i \in { r \in 1..Len(rows) :
                                   ~rows[r].gn.na /\ Strip(StrOf(op_col[r])) # "" } }
        /\ rows = << [op |-> Cell("CT"), gn |-> Cell("1.1.1.0/24")],
                     [op |-> NaN, gn |-> Cell("2.2.2.0/24")] >>
              => excel_map = [k \in {"CT"} |-> {"1.1.1.0/24", "2.2.2.0/24"}]

\* A sheet whose carrier is given on a row without net and inherited two rows
\* below has been loaded.
ForwardFillWitness ==
    /\ pc = "done"
    /\ Len(rows) = 3
    /\ rows[1].op = Cell(" CU ") /\ rows[1].gn.na
    /\ rows[2].op.na /\ rows[3].op.na /\ ~rows[3].gn.na
    /\ "CU" \in DOMAIN excel_map

\* C7: a row whose carrier is empty after forward-fill and trimming, or
\* whose carrier cell is missing with no carrier above it, adds no net; every
\* key of the register is the trimmed, non-empty text of some row's carrier
\* cell.
EmptyCarrierSkipped ==
    pc = "done" =>
        /\ \A k \in DOMAIN excel_map :
              \E i \in 1..Len(rows) :
                  ~rows[i].op.na /\ k = Strip(rows[i].op.text) /\ k # ""
        /\ NetsOfMap(excel_map) =
              UNION { NetsOfCell(rows[i].gn) :
                        i \in { r \in 1..Len(rows) :
                                   /\ ~rows[r].gn.na
                                   /\ CarrierRow(r) > 0
                                   /\ Strip(rows[CarrierRow(r)].op.text) # "" } }

-----------------------------------------------------------------------------
(* extract_blocks_from_file *)

OpenToken == "ip address-set internationalgn"

\* stripped.startswith("ip address-set internationalgn")
IsOpenLine(line) == StartsWith(Strip(line), OpenToken)

\* stripped == "#"
IsEndLine(line) == Strip(line) = "#"

\* Mutant: the delimiter test of the scanner accepts any line starting with '#'.
ScanIsEndPrefix(line) == StartsWith(Strip(line), "#")

\* The delimiter test as the loop body applies it.
ScanIsEnd(line) == IsEndLine(line)

\* Mutant: a start marker inside a block does not close the block.
ScanStepMerge(st, line) ==
    IF IsOpenLine(line) \/ st.in_block
    THEN IF ~IsOpenLine(line) /\ IsEndLine(line)
         THEN [blocks |-> Append(st.blocks, Join(Append(st.current_block, line))),
               current_block |-> <<>>,
               in_block |-> FALSE]
         ELSE [blocks |-> st.blocks,
               current_block |-> Append(st.current_block, line),
               in_block |-> TRUE]
    ELSE st

\* One iteration of the loop body on `line`, from the state st = [blocks,
\* current_block, in_block].
ScanStep(st, line) ==
    IF IsOpenLine(line)
    THEN [blocks |-> IF st.in_block /\ st.current_block # <<>>
                     THEN Append(st.blocks, Join(st.current_block))
                     ELSE st.blocks,
          current_block |-> IF st.in_block /\ st.current_block # <<>>
                            THEN <<line>>
                            ELSE Append(st.current_block, line),
          in_block |-> TRUE]
    ELSE IF st.in_block
    THEN IF ScanIsEnd(line)
         THEN [blocks |-> Append(st.blocks, Join(Append(st.current_block, line))),
               current_block |-> <<>>,
               in_block |-> FALSE]
         ELSE [blocks |-> st.blocks,
               current_block |-> Append(st.current_block, line),
               in_block |-> TRUE]
    ELSE st

\* Mutant: an unterminated trailing block is dropped.
ScanEndNoFlush(st) == st.blocks

\* The statement after the loop: flush an unterminated block.
ScanEnd(st) ==
    IF st.in_block /\ st.current_block # <<>>
    THEN Append(st.blocks, Join(st.current_block))
    ELSE st.blocks

ScanState == [blocks |-> blocks, current_block |-> current_block, in_block |-> in_block]

\* Lines of a router-config dump, each with its terminator.
ScanLines ==
    { " ip address-set internationalgn type object\n",
      " #\n",
      " address 0 1.2.3.4 wildcard 0.0.0.7 description CT\n",
      "# ip address-set internationalgn\n" }

\* The last line of a file may lack the terminator.
ScanLastLines == ScanLines \cup { "#", "ip address-set internationalgn" }

MaxLines == 4

ScanFiles ==
    UNION { { f \in [1..n -> ScanLastLines] : \A i \in 1..(n - 1) : f[i] \in ScanLines }
            : n \in 0..MaxLines }

ScanInit ==
    /\ pc = "scan"
    /\ file \in ScanFiles
    /\ pos = 0
    /\ blocks = <<>>
    /\ current_block = <<>>
    /\ in_block = FALSE
    /\ WcIdle /\ LineIdle /\ RegIdle /\ RecIdle /\ MainIdle

\* for line in f: <body>
ReadLine ==
    /\ pc = "scan"
    /\ pos < Len(file)
    /\ LET st == ScanStep(ScanState, file[pos + 1])
       IN  /\ blocks' = st.blocks
           /\ current_block' = st.current_block
           /\ in_block' = st.in_block
    /\ pos' = pos + 1
    /\ UNCHANGED <<pc, file, wcVars, lineVars, regVars, recVars, mainVars>>

\* end of input: the trailing `if` and the return
EndOfFile ==
    /\ pc = "scan"
    /\ pos = Len(file)
    /\ blocks' = ScanEnd(ScanState)
    /\ pc' = "done"
    /\ UNCHANGED <<file, pos, current_block, in_block, wcVars, lineVars, regVars, recVars, mainVars>>

ScanNext == ReadLine \/ EndOfFile

SpecScan == ScanInit /\ [][ScanNext]_vars

-----------------------------------------------------------------------------
(* The scanner's result, described from the input alone *)

\* Index of the last start-marker line among the first p lines (0: none).
LastOpen(p) ==
    LET S == { j \in 1..p : IsOpenLine(file[j]) }
    IN  IF S = {} THEN 0 ELSE CHOOSE j \in S : \A k \in S : k <= j

\* After p lines the scan is inside a stanza: a start marker was read and no
\* delimiter line since.
InsideAt(p) ==
    LET j == LastOpen(p)
    IN  j > 0 /\ \A k \in (j + 1)..p : ~IsEndLine(file[k])

\* Line i is read into a stanza.
InStanza(i) == IsOpenLine(file[i]) \/ InsideAt(i - 1)

OpenIndices == { j \in 1..Len(file) : IsOpenLine(file[j]) }

\* The k-th start-marker line of the file.
OpenIdx(k) ==
    CHOOSE j \in OpenIndices : Cardinality({ i \in OpenIndices : i <= j }) = k

\* Last line of the stanza opened at line o: it runs up to the first delimiter
\* line, the line before the next start marker, or the end of the input.
StanzaEnd(o) ==
    LET E == { e \in o..Len(file) :
                 \A k \in (o + 1)..e : ~IsOpenLine(file[k]) /\ ~IsEndLine(file[k - 1]) }
    IN  CHOOSE e \in E : \A x \in E : x <= e

\* str.splitlines(keepends=True) for "\n"-terminated text
RECURSIVE SplitKeepEnds(_)
SplitKeepEnds(s) ==
    IF s = "" THEN <<>>
    ELSE LET N == { i \in 1..Len(s) : Ch(s, i) = "\n" }
             c == IF N = {} THEN Len(s) ELSE CHOOSE i \in N : \A x \in N : i <= x
         IN  <<SubSeq(s, 1, c)>> \o SplitKeepEnds(SubSeq(s, c + 1, Len(s)))

\* A start-marker line is read while the scan is inside a stanza.
ReentryStep ==
    /\ pc = "scan" /\ pos < Len(file) /\ in_block
    /\ IsOpenLine(file[pos + 1])
    /\ pos' = pos + 1

\* C2: when a start-marker line is read inside a stanza, the buffered lines
\* (all lines since the stanza's own start marker, none of them a delimiter
\* line) are emitted as one stanza, unchanged, and the new buffer holds
\* exactly the start-marker line just read.
ReentryRule ==
    [][ReentryStep =>
          /\ blocks' = Append(blocks, Join(SubSeq(file, LastOpen(pos), pos)))
          /\ \A i \in (LastOpen(pos) + 1)..pos :
                 ~IsEndLine(file[i]) /\ ~IsOpenLine(file[i])
          /\ current_block' = <<file[pos + 1]>>
          /\ in_block']_vars

\* A start marker has just been read while inside a two-line stanza.
ReentryWitness ==
    /\ pos >= 3
    /\ IsOpenLine(file[pos]) /\ ~IsOpenLine(file[pos - 1]) /\ InsideAt(pos - 1)
    /\ current_block = <<file[pos]>>
    /\ blocks # <<>>

\* C3: at the end of the input, an open stanza (no delimiter line since its
\* start marker) is the last element of the result; otherwise the last
\* element, if any, is a stanza closed by its delimiter line and the result has
\* one stanza per start marker.  Every line read inside a stanza is in some
\* emitted stanza.
EndOfInputRule ==
    pc = "done" =>
        LET n == Len(file)
        IN  /\ InsideAt(n) =>
                  /\ blocks # <<>>
                  /\ blocks[Len(blocks)] = Join(SubSeq(file, LastOpen(n), n))
            /\ ~InsideAt(n) =>
                  /\ Len(blocks) = Cardinality(OpenIndices)
                  /\ blocks # <<>> =>
                        LET ls == SplitKeepEnds(blocks[Len(blocks)])
                        IN  IsEndLine(ls[Len(ls)])
            /\ \A i \in 1..n :
                  InStanza(i) =>
                      \E k \in 1..Len(blocks) : \E s \in 1..i : \E e \in i..n :
                          /\ blocks[k] = Join(SubSeq(file, s, e))
                          /\ Cardinality({ j \in OpenIndices : j <= s }) = k

\* The scan finished inside a stanza of at least two lines.
EndOfInputWitness ==
    /\ pc = "done"
    /\ InsideAt(Len(file))
    /\ LastOpen(Len(file)) < Len(file)
    /\ blocks # <<>>

TwoStanzaFile ==
    << " ip address-set internationalgn type object\n", " #\n",
       " ip address-set internationalgn type object\n", "#" >>

\* C4: the result has one stanza per start-marker line, in source order; the
\* k-th stanza is the contiguous run of lines from the k-th start marker to
\* its delimiter line, the line before the next start marker or the end of
\* input; only its first line is a start marker, only its last line can be a
\* delimiter line, and lines outside any stanza are in none.
StanzaStructure ==
    pc = "done" =>
        LET m == Cardinality(OpenIndices)
        IN  /\ Len(blocks) = m
            /\ \A k \in 1..m :
                  /\ blocks[k] = Join(SubSeq(file, OpenIdx(k), StanzaEnd(OpenIdx(k))))
                  /\ LET ls == SplitKeepEnds(blocks[k])
                     IN  /\ IsOpenLine(ls[1])
                         /\ \A i \in 2..Len(ls) : ~IsOpenLine(ls[i])
                         /\ \A i \in 1..(Len(ls) - 1) : ~IsEndLine(ls[i])
                  /\ k < m => StanzaEnd(OpenIdx(k)) < OpenIdx(k + 1)
            /\ \A i \in 1..Len(file) :
                  ~InStanza(i) =>
                      \A k \in 1..m : i \notin OpenIdx(k)..StanzaEnd(OpenIdx(k))
            /\ file = TwoStanzaFile =>
                  blocks = << file[1] \o file[2], file[3] \o file[4] >>

\* The scan of a file with two delimiter-terminated stanzas has finished.
StanzaStructureWitness ==
    /\ pc = "done"
    /\ file = TwoStanzaFile
    /\ Len(blocks) = 2

-----------------------------------------------------------------------------
(* load_txt_gn_map *)

WordChars == "ABCDEFGHIJKLMNOPQRSTUVWXYZabcdefghijklmnopqrstuvwxyz0123456789_"
UpperChars == "ABCDEFGHIJKLMNOPQRSTUVWXYZ"
LowerChars == "abcdefghijklmnopqrstuvwxyz"

WordCharSet == { Ch(WordChars, i) : i \in 1..Len(WordChars) }

\* A character of the class \w
IsWord(c) == c \in WordCharSet

UpperCharSet == { Ch(UpperChars, i) : i \in 1..Len(UpperChars) }

LowerOf ==
    [c \in UpperCharSet |->
        Ch(LowerChars, CHOOSE i \in 1..Len(UpperChars) : Ch(UpperChars, i) = c)]

\* The lower-case form of a character (re.IGNORECASE)
Lower(c) == IF c \in UpperCharSet THEN LowerOf[c] ELSE c

LitAtCI(s, i, lit) ==
    /\ i + Len(lit) - 1 <= Len(s)
    /\ \A k \in 1..Len(lit) : Lower(Ch(s, i + k - 1)) = Ch(lit, k)

\* \b at index i: exactly one of the characters before and at i is a word character
WordBoundary(s, i) == IsWord(Ch(s, i - 1)) # IsWord(Ch(s, i))

\* \d{1,n} at index i, ending at index o, and then the character sep: the
\* index after sep, 0 when they are not there.
DigitsThenAt(s, i, o, n, sep) ==
    IF i > 0 /\ o - i \in 1..n /\ Ch(s, o) = sep THEN o + 1 ELSE 0

DigitsThen(s, i, n, sep) == DigitsThenAt(s, i, RunEnd(s, i, "d"), n, sep)

\* \d{1,2}\b at index i, ending at index p: p, 0 when they are not there.
PrefixLenEndAt(s, i, p) == IF i > 0 /\ p - i \in 1..2 /\ WordBoundary(s, p) THEN p ELSE 0

PrefixLenEnd(s, i) == PrefixLenEndAt(s, i, RunEnd(s, i, "d"))

\* \b(\d{1,3}(?:\.\d{1,3}){3}/\d{1,2})\b at index i: the index after the
\* net, 0 when it does not match.  Each digit run ends at "." "/" or a word
\* boundary, so it is matched whole or not at all.
NetEndAt(s, i) ==
    IF IsDigit(Ch(s, i)) /\ WordBoundary(s, i)
    THEN PrefixLenEnd(s,
             DigitsThen(s, DigitsThen(s, DigitsThen(s, DigitsThen(s, i, 3, "."),
                                                      3, "."), 3, "."), 3, "/"))
    ELSE 0

\* \s+(\S+) at index q0, the first \s+ ending at q
DescNameAt(q0, q, r) == q > q0 /\ r > q

\* \bdescription\s+(\S+) at index j
DescAt(s, j) ==
    /\ LitAtCI(s, j, "description")
    /\ WordBoundary(s, j)
    /\ DescNameAt(j + 11, RunEnd(s, j + 11, "s"), RunEnd(s, RunEnd(s, j + 11, "s"), "S"))

\* The least element of a set of indices.
MinOf(S) == CHOOSE x \in S : \A y \in S : x <= y

\* Where .*?\bdescription\s+(\S+) can match after a net that ends before
\* index e: . does not match a line feed.
DescPositions(line, e) ==
    { j \in e..Len(line) : DescAt(line, j) /\ \A k \in e..(j - 1) : Ch(line, k) # "\n" }

\* A net ends before index e and a description follows it.
HasDesc(line, e) == e > 0 /\ DescPositions(line, e) # {}

\* The match whose net is line[i..e-1] and whose carrier starts at index q.
TxtMatchOf(line, i, e, q) ==
    [matched |-> TRUE,
     net |-> SubSeq(line, i, e - 1),
     op |-> SubSeq(line, q, RunEnd(line, q, "S") - 1)]

\* The match whose net starts at i and ends before e: the nearest
\* description (.*? is lazy).
TxtMatchFrom(line, i, e) ==
    TxtMatchOf(line, i, e, RunEnd(line, MinOf(DescPositions(line, e)) + 11, "s"))

\* The match among the starting indices S: the leftmost one.
TxtMatchAmong(line, S) ==
    IF S = {} THEN [matched |-> FALSE, net |-> "", op |-> ""]
    ELSE TxtMatchFrom(line, MinOf(S), NetEndAt(line, MinOf(S)))

\* pattern.search(line): the leftmost net that some later description follows
\* on the same line.
TxtPatternSearch(line) ==
    TxtMatchAmong(line, { i \in 1..Len(line) : HasDesc(line, NetEndAt(line, i)) })

\* txt_map[op].add(net) unless op or net is empty, on d = [map, order]: the
\* dict and its keys in insertion order.
LoadTxtPair(d, op, net) ==
    IF op = "" \/ net = "" THEN d
    ELSE [map |-> MapAdd(d.map, op, net),
          order |-> IF op \in DOMAIN d.map THEN d.order ELSE Append(d.order, op)]

\* The body of the loop of load_txt_gn_map once the pattern has given m.
LoadTxtMatch(d, m) ==
    IF ~m.matched THEN d ELSE LoadTxtPair(d, Strip(m.op), Strip(m.net))

\* One line of the loop of load_txt_gn_map.
LoadTxtLine(d, line) == LoadTxtMatch(d, TxtPatternSearch(line))

RECURSIVE LoadTxtLines(_, _)
LoadTxtLines(d, lines) ==
    IF lines = <<>> THEN d ELSE LoadTxtLines(LoadTxtLine(d, Head(lines)), Tail(lines))

\* load_txt_gn_map on a file with the given lines
LoadTxtGnMap(lines) == LoadTxtLines([map |-> EmptyMap, order |-> <<>>], lines)

-----------------------------------------------------------------------------
(* compare_and_output, and main of the comparison script *)

AsciiOrder == " #./0123456789ABCDEFGHIJKLMNOPQRSTUVWXYZ_abcdefghijklmnopqrstuvwxyz"

Rank(c) == CHOOSE i \in 1..Len(AsciiOrder) : Ch(AsciiOrder, i) = c

\* a < b for strings
RECURSIVE StrLess(_, _)
StrLess(a, b) ==
    IF a = "" THEN b # ""
    ELSE IF b = "" THEN FALSE
    ELSE IF Ch(a, 1) = Ch(b, 1) THEN StrLess(SubSeq(a, 2, Len(a)), SubSeq(b, 2, Len(b)))
    ELSE Rank(Ch(a, 1)) < Rank(Ch(b, 1))

\* sorted(S)
RECURSIVE Sorted(_)
Sorted(S) ==
    IF S = {} THEN <<>>
    ELSE LET lo == CHOOSE x \in S : \A y \in S \ {x} : StrLess(x, y)
         IN  <<lo>> \o Sorted(S \ {lo})

\* Mutant: the membership test always succeeds.
InMapAlways(m, k) == TRUE

\* op in excel_map
InMap(m, k) == k \in DOMAIN m

\* m[k] on a defaultdict(set): a missing key is inserted with an empty set
DefaultDictGet(m, k) ==
    IF k \in DOMAIN m
    THEN [map |-> m, val |-> m[k]]
    ELSE [map |-> [x \in DOMAIN m \cup {k} |-> IF x = k THEN {} ELSE m[x]], val |-> {}]

\* m.get(k, default)
DictGet(m, k, default) == IF k \in DOMAIN m THEN m[k] ELSE default

\* d[k] = v on a dict
DictSet(d, k, v) == [x \in DOMAIN d \cup {k} |-> IF x = k THEN v ELSE d[x]]

\* The body of the comparison loop without the test for an unknown carrier.
CompareKnown(st, op, nets_in_txt) ==
    LET got == DefaultDictGet(st.excel_map, op)
        excel_nets_norm == { NormalizeNet(n) : n \in got.val }
        diff_nets == { net \in nets_in_txt : NormalizeNet(net) \notin excel_nets_norm }
    IN  [excel_map |-> got.map,
         diff_exist |-> IF diff_nets # {}
                        THEN DictSet(st.diff_exist, op, Sorted(diff_nets))
                        ELSE st.diff_exist,
         diff_not_exist |-> st.diff_not_exist]

\* Mutant: every carrier is looked up in the register.
CompareStepNoUnknown(st, op, nets_in_txt) == CompareKnown(st, op, nets_in_txt)

\* One iteration of the loop of compare_and_output on st = [excel_map,
\* diff_exist, diff_not_exist].
CompareStep(st, op, nets_in_txt) ==
    IF ~InMap(st.excel_map, op)
    THEN [excel_map |-> st.excel_map,
          diff_exist |-> st.diff_exist,
          diff_not_exist |-> DictSet(st.diff_not_exist, op, Sorted(nets_in_txt))]
    ELSE CompareKnown(st, op, nets_in_txt)

\* One iteration of the loop of the comparison script's main (diff_result is
\* kept in diff_exist).
ScriptCompareStep(st, op, nets_in_txt) ==
    LET excel_nets_norm == DictGet(st.excel_map, op, {})
        diff_nets == { net \in nets_in_txt : NormalizeNet(net) \notin excel_nets_norm }
    IN  [excel_map |-> st.excel_map,
         diff_exist |-> IF diff_nets # {}
                        THEN DictSet(st.diff_exist, op, Sorted(diff_nets))
                        ELSE st.diff_exist,
         diff_not_exist |-> st.diff_not_exist]

\* The carrier blocks of a report section: the carrier, its nets, a blank line.
RECURSIVE RenderCarriers(_, _)
RenderCarriers(d, ops) ==
    IF ops = <<>> THEN ""
    ELSE LET nets == d[Head(ops)]
         IN  Head(ops) \o "\n"
             \o Join([i \in 1..Len(nets) |-> nets[i] \o "\n"])
             \o "\n"
             \o RenderCarriers(d, Tail(ops))

\* The two section banners (Chinese literals in the source, transliterated).
BannerExist == "[Excel cunzai de yunyingshang]\n"
BannerNotExist == "[Excel zhong bu cunzai de yunyingshang]\n"
Divider == "=========================================================\n"

\* The text compare_and_output writes to out_path.
RenderReport(de, dn) ==
    BannerExist \o RenderCarriers(de, Sorted(DOMAIN de))
    \o Divider \o Divider \o "\n"
    \o BannerNotExist \o RenderCarriers(dn, Sorted(DOMAIN dn))

\* The text the comparison script writes to out_path.
RenderScriptReport(dr) == RenderCarriers(dr, Sorted(DOMAIN dr))

\* Rows of the register sheet and lines of the CIDR text file.
RecRowKinds ==
    { [op |-> Cell("CT"), gn |-> Cell("1.2.3.0 /24")],
      [op |-> Cell("CT"), gn |-> Cell("5.6.7.0/28")],
      [op |-> Cell(" CM "), gn |-> Cell("9.9.9.0/30\n10.0.0.0/8")] }

RecLineKinds ==
    { "  address 10 1.2.3.0/24 description CT\n",
      "  address 11 5.6.7.0/28 description CT\n",
      "  address 12 9.9.9.0/30 Description CU roaming\n",
      " #\n" }

MaxRecRows == 2
MaxRecLines == 3

RecInit ==
    /\ pc = "load_excel"
    /\ prog \in {"gn_check_all", "compare_script"}
    /\ rows \in UNION { [1..n -> RecRowKinds] : n \in 0..MaxRecRows }
    /\ txt_lines \in UNION { [1..n -> RecLineKinds] : n \in 0..MaxRecLines }
    /\ op_col = <<>> /\ row_i = 0 /\ excel_map = EmptyMap
    /\ txt_map = EmptyMap /\ txt_order = <<>> /\ txt_i = 0
    /\ diff_exist = EmptyMap /\ diff_not_exist = EmptyMap /\ report = ""
    /\ ScanIdle /\ WcIdle /\ LineIdle /\ MainIdle

\* excel_map = load_excel_gn_map(excel_path, ...)
RecLoadExcel ==
    /\ pc = "load_excel"
    /\ excel_map' = LoadExcelGnMap(rows)
    /\ pc' = "load_txt"
    /\ UNCHANGED <<rows, op_col, row_i, prog, txt_lines, txt_map, txt_order, txt_i,
                   diff_exist, diff_not_exist, report, scanVars, wcVars, lineVars, mainVars>>

\* txt_map = load_txt_gn_map(txt_path)
RecLoadTxt ==
    /\ pc = "load_txt"
    /\ \E d \in {LoadTxtGnMap(txt_lines)} : txt_map' = d.map /\ txt_order' = d.order
    /\ pc' = "compare"
    /\ UNCHANGED <<regVars, prog, txt_lines, txt_i, diff_exist, diff_not_exist, report,
                   scanVars, wcVars, lineVars, mainVars>>

\* for op, nets_in_txt in txt_map.items(): <body>
RecCompare ==
    /\ pc = "compare"
    /\ txt_i < Len(txt_order)
    /\ LET op == txt_order[txt_i + 1]
           st == [excel_map |-> excel_map, diff_exist |-> diff_exist,
                  diff_not_exist |-> diff_not_exist]
           nx == IF prog = "gn_check_all"
                 THEN CompareStep(st, op, txt_map[op])
                 ELSE ScriptCompareStep(st, op, txt_map[op])
       IN  /\ excel_map' = nx.excel_map
           /\ diff_exist' = nx.diff_exist
           /\ diff_not_exist' = nx.diff_not_exist
    /\ txt_i' = txt_i + 1
    /\ UNCHANGED <<pc, rows, op_col, row_i, prog, txt_lines, txt_map, txt_order, report,
                   scanVars, wcVars, lineVars, mainVars>>

\* with open(out_path, "w") ...: the report is written
RecWrite ==
    /\ pc = "compare"
    /\ txt_i = Len(txt_order)
    /\ report' = IF prog = "gn_check_all"
                 THEN RenderReport(diff_exist, diff_not_exist)
                 ELSE RenderScriptReport(diff_exist)
    /\ pc' = "done"
    /\ UNCHANGED <<regVars, prog, txt_lines, txt_map, txt_order, txt_i, diff_exist,
                   diff_not_exist, scanVars, wcVars, lineVars, mainVars>>

RecNext == RecLoadExcel \/ RecLoadTxt \/ RecCompare \/ RecWrite

SpecRec == RecInit /\ [][RecNext]_vars

\* The elements of a list
Elems(q) == { q[i] : i \in 1..Len(q) }

\* The register as it was loaded from the sheet.
LoadedRegister == LoadExcelGnMap(rows)

\* The inventory nets of carrier c whose whitespace-stripped form is not in
\* the register's normalized set for c.
Mismatched(c) ==
    { net \in txt_map[c] :
        NormalizeNet(net) \notin { NormalizeNet(n) : n \in LoadedRegister[c] } }

\* C1: after the comparison loop of compare_and_output, diff_not_exist holds
\* exactly the inventory carriers absent from the register, each with all its
\* nets; diff_exist holds exactly the inventory carriers present in the
\* register that have a mismatched net, each with exactly its mismatched
\* nets; the two sections share no carrier and hold no register-only carrier.
ReconcileResult ==
    (prog = "gn_check_all" /\ pc = "done") =>
        LET inv == DOMAIN txt_map
            reg == DOMAIN LoadedRegister
        IN  /\ DOMAIN diff_not_exist = inv \ reg
            /\ \A c \in inv \ reg :
                  /\ Elems(diff_not_exist[c]) = txt_map[c]
                  /\ Len(diff_not_exist[c]) = Cardinality(txt_map[c])
            /\ DOMAIN diff_exist = { c \in inv \cap reg : Mismatched(c) # {} }
            /\ \A c \in DOMAIN diff_exist :
                  /\ Elems(diff_exist[c]) = Mismatched(c)
                  /\ Len(diff_exist[c]) = Cardinality(Mismatched(c))
            /\ DOMAIN diff_exist \cap DOMAIN diff_not_exist = {}
            /\ (DOMAIN diff_exist \cup DOMAIN diff_not_exist) \cap (reg \ inv) = {}
            /\ ( /\ LoadedRegister = [c \in {"CT"} |-> {"1.2.3.0/24"}]
                 /\ txt_map = [c \in {"CT", "CU"} |->
                                  IF c = "CT" THEN {"1.2.3.0/24", "5.6.7.0/28"}
                                  ELSE {"9.9.9.0/30"}] )
               => /\ diff_exist = [c \in {"CT"} |-> <<"5.6.7.0/28">>]
                  /\ diff_not_exist = [c \in {"CU"} |-> <<"9.9.9.0/30">>]

\* The register {"CT": {"1.2.3.0/24"}} has been compared with an inventory
\* that holds a matching net, a mismatched net and an unknown carrier.
ReconcileWitness ==
    /\ prog = "gn_check_all" /\ pc = "done"
    /\ rows = << [op |-> Cell("CT"), gn |-> Cell("1.2.3.0 /24")] >>
    /\ DOMAIN diff_exist = {"CT"}
    /\ DOMAIN diff_not_exist = {"CU"}

\* C10: the comparison loop changes neither mapping: the register keeps its
\* carrier keys and net sets, with no entry created for an inventory carrier
\* it lacks, and so does the inventory.
MappingsUnchanged ==
    [][pc = "compare" => (excel_map' = excel_map /\ txt_map' = txt_map)]_vars

\* The loop has handled an inventory carrier that the register lacks.
MappingsUnchangedWitness ==
    /\ pc = "compare"
    /\ txt_i > 0
    /\ txt_order[txt_i] \notin DOMAIN excel_map
    /\ excel_map # EmptyMap

-----------------------------------------------------------------------------
(* safe_read_excel, process_all_txt_files and main of gn_check_all *)

\* str.lower()
RECURSIVE LowerStr(_)
LowerStr(s) == IF s = "" THEN "" ELSE Lower(Ch(s, 1)) \o LowerStr(SubSeq(s, 2, Len(s)))

\* str.endswith(p)
EndsWith(s, p) == Len(s) >= Len(p) /\ SubSeq(s, Len(s) - Len(p) + 1, Len(s)) = p

\* os.path.splitext(name) of a file name without directory: the extension
\* starts at the last dot that follows a character other than a dot.
SplitExt(name) ==
    LET D == { i \in 2..Len(name) :
                 Ch(name, i) = "." /\ \E k \in 1..(i - 1) : Ch(name, k) # "." }
    IN  IF D = {} THEN [root |-> name, ext |-> ""]
        ELSE LET d == CHOOSE i \in D : \A x \in D : x <= i
             IN  [root |-> SubSeq(name, 1, d - 1), ext |-> SubSeq(name, d, Len(name))]

\* sep.join(parts)
RECURSIVE JoinWith(_, _)
JoinWith(parts, sep) ==
    IF parts = <<>> THEN ""
    ELSE IF Len(parts) = 1 THEN parts[1]
    ELSE Head(parts) \o sep \o JoinWith(Tail(parts), sep)

\* safe_read_excel(path, ...) raises ValueError for an extension other than
\* .xlsx and .xls
ExcelFormatSupported(path) == LowerStr(SplitExt(path).ext) \in {".xlsx", ".xls"}

RECURSIVE ScanAll(_, _)
ScanAll(st, lines) ==
    IF lines = <<>> THEN st ELSE ScanAll(ScanStep(st, Head(lines)), Tail(lines))

\* extract_blocks_from_file on a file with the given text
ExtractBlocks(text) ==
    ScanEnd(ScanAll([blocks |-> <<>>, current_block |-> <<>>, in_block |-> FALSE],
                    SplitKeepEnds(text)))

\* The loop `for line in fin: fout.write(convert_line(line))`: the text
\* written, and whether convert_line raised (the lines before it are kept).
ConvertedThen(r, rest) ==
    IF r.raised THEN [raised |-> TRUE, text |-> ""]
    ELSE [raised |-> rest.raised, text |-> r.text \o rest.text]

RECURSIVE ConvertLines(_)
ConvertLines(lines) ==
    IF lines = <<>> THEN [raised |-> FALSE, text |-> ""]
    ELSE ConvertedThen(ConvertLine(Head(lines)), ConvertLines(Tail(lines)))

\* The report of the result st of the comparison loop.
RenderCompared(st) == RenderReport(st.diff_exist, st.diff_not_exist)

RECURSIVE CompareAll(_, _, _)
CompareAll(st, order, tmap) ==
    IF order = <<>> THEN st
    ELSE CompareAll(CompareStep(st, Head(order), tmap[Head(order)]), Tail(order), tmap)

\* The report compare_and_output writes when the two loaders have given
\* excel_map0 and d = [map, order].
ReportFor(excel_map0, d) ==
    RenderCompared(CompareAll([excel_map |-> excel_map0, diff_exist |-> EmptyMap,
                               diff_not_exist |-> EmptyMap], d.order, d.map))

\* The report compare_and_output writes for a register sheet and a CIDR text.
ReportOf(sheet, text) == ReportFor(LoadExcelGnMap(sheet), LoadTxtGnMap(SplitKeepEnds(text)))

\* fs with file `name` holding `text`
WriteFile(f, name, text) == [x \in DOMAIN f \cup {name} |-> IF x = name THEN text ELSE f[x]]

\* fs without file `name`
RemoveFile(f, name) == [x \in DOMAIN f \ {name} |-> f[x]]

\* Router-config dumps: one with two stanzas, one without any, one whose
\* stanza holds a wildcard that is no number.
DumpTexts ==
    { "sysname FW\n ip address-set internationalgn type object\n"
        \o " address 0 1.2.3.0 wildcard 0.0.0.255 description CT\n #\n"
        \o "ip address-set internationalgn2 type object\n"
        \o " address 0 9.9.9.0 wildcard 0.0.0.3 description CU\n#\nreturn\n",
      "sysname FW\n#\nreturn\n",
      "ip address-set internationalgn type object\n address 0 1.2.3.0 wildcard any\n#\n" }

\* File names of the register
RegisterNames ==
    { "internationalgn.xls", "internationalgn.XLSX", "internationalgn.csv", "internationalgn" }

\* The suffix of the report file name (a Chinese literal in the source,
\* transliterated).
ReportSuffix == "_bijiaojieguo.txt"

RegisterSheet == << [op |-> Cell("CT"), gn |-> Cell("1.2.3.0 /24")] >>

Listings(S) ==
    { q \in [1..Cardinality(S) -> S] : \A i, j \in 1..Cardinality(S) : q[i] = q[j] => i = j }

MainInit ==
    /\ pc = "process"
    /\ excel_path \in RegisterNames
    /\ \E a \in DumpTexts \cup {"absent"}, b \in DumpTexts \cup {"absent"},
          c \in {"notes", "absent"} :
          fs = [n \in { x \in {"FW.txt", "core.TXT", "notes.log", excel_path} :
                          \/ x = excel_path
                          \/ x = "FW.txt" /\ a # "absent"
                          \/ x = "core.TXT" /\ b # "absent"
                          \/ x = "notes.log" /\ c # "absent" }
                  |-> CASE n = "FW.txt" -> a
                        [] n = "core.TXT" -> b
                        [] n = "notes.log" -> c
                        [] OTHER -> "register"]
    /\ listing \in Listings(DOMAIN fs)
    /\ rows = RegisterSheet
    /\ list_i = 0 /\ cidr_files = <<>> /\ cmp_i = 0
    /\ scanned = {} /\ created = {} /\ removed = {} /\ err = ""
    /\ op_col = <<>> /\ row_i = 0 /\ excel_map = <<>>
    /\ ScanIdle /\ WcIdle /\ LineIdle /\ RecIdle

\* The rest of an iteration of process_all_txt_files for a file with stanzas:
\* the two files are written, and the first one removed unless convert_line
\* raised.
MainWriteFiles(new_path, out_path_local, extract, cidr) ==
    /\ created' = created \cup {new_path, out_path_local}
    /\ IF cidr.raised
       THEN /\ fs' = WriteFile(WriteFile(fs, new_path, extract), out_path_local, cidr.text)
            /\ pc' = "raised" /\ err' = "ValueError: int"
            /\ UNCHANGED <<cidr_files, removed>>
       ELSE /\ fs' = RemoveFile(WriteFile(WriteFile(fs, new_path, extract),
                                          out_path_local, cidr.text), new_path)
            /\ removed' = removed \cup {new_path}
            /\ cidr_files' = Append(cidr_files, out_path_local)
            /\ UNCHANGED <<pc, err>>

\* One iteration of the loop of process_all_txt_files.
MainProcessFile ==
    /\ pc = "process"
    /\ list_i < Len(listing)
    /\ list_i' = list_i + 1
    /\ \E filename \in {listing[list_i + 1]} :
          IF ~EndsWith(LowerStr(filename), ".txt")
          THEN UNCHANGED <<pc, fs, cidr_files, scanned, created, removed, err>>
          ELSE /\ scanned' = scanned \cup {filename}
               /\ \E found \in {ExtractBlocks(fs[filename])} :
                     IF found = <<>>
                     THEN UNCHANGED <<pc, fs, cidr_files, created, removed, err>>
                     ELSE \E base_name \in {SplitExt(filename).root},
                             extract \in {JoinWith(found, "\n")} :
                             MainWriteFiles(base_name \o "_Extract.txt",
                                            base_name \o "_Extract_CIDR.txt",
                                            extract,
                                            ConvertLines(SplitKeepEnds(extract)))
    /\ UNCHANGED <<excel_path, listing, cmp_i, scanVars, wcVars, lineVars, regVars, recVars>>

\* process_all_txt_files returns; main goes on to the comparison.
MainStartCompare ==
    /\ pc = "process"
    /\ list_i = Len(listing)
    /\ pc' = "compare"
    /\ UNCHANGED <<fs, excel_path, listing, list_i, cidr_files, cmp_i, scanned, created,
                   removed, err, scanVars, wcVars, lineVars, regVars, recVars>>

\* One iteration of the loop of main: compare_and_output(excel_path,
\* cidr_path, out_path), which reads the register first.
MainCompare ==
    /\ pc = "compare"
    /\ cmp_i < Len(cidr_files)
    /\ cmp_i' = cmp_i + 1
    /\ \E cidr_path \in {cidr_files[cmp_i + 1]} :
          \E out_path \in {SplitExt(cidr_path).root \o ReportSuffix} :
             IF ~ExcelFormatSupported(excel_path)
             THEN /\ pc' = "raised" /\ err' = "ValueError: format"
                  /\ UNCHANGED <<fs, created>>
             ELSE /\ fs' = WriteFile(fs, out_path, ReportOf(rows, fs[cidr_path]))
                  /\ created' = created \cup {out_path}
                  /\ UNCHANGED <<pc, err>>
    /\ UNCHANGED <<excel_path, listing, list_i, cidr_files, scanned, removed,
                   scanVars, wcVars, lineVars, regVars, recVars>>

\* The loop of main is over: the prompt, and the run ends.
MainFinish ==
    /\ pc = "compare"
    /\ cmp_i = Len(cidr_files)
    /\ pc' = "done"
    /\ UNCHANGED <<mainVars, scanVars, wcVars, lineVars, regVars, recVars>>

MainNext == MainProcessFile \/ MainStartCompare \/ MainCompare \/ MainFinish

SpecMain == MainInit /\ [][MainNext]_vars

\* C9: in a batch run whose register has an extension other than .xls and
\* .xlsx, the unsupported-format error is raised before any text file is
\* scanned and before any output file is created or removed.
UnsupportedFormatFailsFast ==
    err = "ValueError: format" => (scanned = {} /\ created = {} /\ removed = {})

====
